---- MODULE Spec2Model ----
(***************************************************************************)
(* infernyx/database.py: persisting the results of a map/reduce job.       *)
(*                                                                         *)
(*   _get_columns      the Keyset Resolver                                 *)
(*   _build_datafiles  the Stream Partitioner                              *)
(*   _upload_s3        the Cloud Stager                                    *)
(*   _get_sts_credentials  the Credential Provisioner                      *)
(*   _insert_datafiles the Bulk Loader                                     *)
(*   insert_postgres / insert_redshift  the two pipelines                  *)
(*                                                                         *)
(* Spec        one job run through one of the two pipelines, one loop      *)
(*             iteration or call per step, every call that can raise       *)
(*             either returning or raising.                                *)
(* SpecColumns _get_columns applied to every keyset definition of a        *)
(*             bounded family.                                             *)
(* SpecJobs    the Partitioner and the cleanup of two jobs running at the  *)
(*             same time on one file system.                               *)
(***************************************************************************)
EXTENDS Integers, Sequences, FiniteSets, TLC

VARIABLES
    stream,       \* disco_iter: the records of the job, in delivery order
    params,       \* params: .keysets and (optionally) .clean_db_files
    pipeline,     \* "postgres" (insert_postgres) or "redshift" (insert_redshift)
    bucket_name,  \* kwargs.get('bucket_name') of insert_redshift
    pc,           \* position of the job in the pipeline
    pos,          \* number of records consumed from disco_iter
    pivot,        \* _build_datafiles: pivot
    keyset,       \* _build_datafiles: keyset (the argument of _get_columns)
    columns,      \* _build_datafiles: columns
    total_lines,  \* _build_datafiles: total_lines
    tmp,          \* _build_datafiles: tmp, the name of the gzip file object or None
    datafiles,    \* the list of DataFile tuples handed from step to step
    rval,         \* _upload_s3: rval
    idx,          \* index of the loop of the current step over datafiles
    extras,       \* _insert_datafiles: extras
    disk,         \* local file system under /tmp: file name -> lines written
    openFiles,    \* names of the files whose file object has not been closed
    s3store,      \* object store: (bucket, key) -> content
    connection,   \* "none", "open" or "closed"
    cursor,       \* "none", "open" or "closed"
    pendingTx,    \* indexes of datafiles loaded by the open transaction
    visible,      \* indexes of datafiles whose rows are committed
    exc,          \* the exception in flight, or NoExc
    outcome,      \* what the pipeline function gave its caller
    log,          \* the calls made to the collaborators, in order
    jobs          \* SpecJobs: the locals of each of the concurrent jobs

vars == <<stream, params, pipeline, bucket_name, pc, pos, pivot, keyset,
          columns, total_lines, tmp, datafiles, rval, idx, extras, disk,
          openFiles, s3store, connection, cursor, pendingTx, visible, exc,
          outcome, log, jobs>>

-----------------------------------------------------------------------------
(* Bounds *)

MaxStream == 3        \* longest input stream
MaxKeyParts == 2      \* longest key_parts of a keyset of SpecColumns
MaxValueParts == 2    \* longest value_parts of a keyset of SpecColumns
MaxJobStream == 2     \* longest input stream of a job of SpecJobs

-----------------------------------------------------------------------------
(* Values *)

None == "<None>"
NoExc == <<"NoExc", "">>

PKeys == {"t1", "t2"}
PartNames == {"a", "b", "c"}
MapValues == {None, "", "x"}

\* Python truth value of a mapped column name
Truthy(v) == v # None /\ v # ""

\* s[1:]
Slice1(s) == IF s = <<>> THEN <<>> ELSE Tail(s)

SeqsUpTo(S, lo, hi) == UNION {[1..n -> S] : n \in lo..hi}

-----------------------------------------------------------------------------
(* _get_columns *)

\* keyset.get('column_mappings', None) is true: the key is there and the
\* dict is not empty
HasMappings(ks) ==
    /\ "column_mappings" \in DOMAIN ks
    /\ DOMAIN ks.column_mappings # {}

\* the two for loops of _get_columns: one name in, zero or one name out
RECURSIVE MapParts(_, _)
MapParts(parts, cm) ==
    IF parts = <<>> THEN <<>>
    ELSE LET p == Head(parts)
             rest == MapParts(Tail(parts), cm)
         IN IF p \in DOMAIN cm
            THEN IF Truthy(cm[p]) THEN <<cm[p]>> \o rest ELSE rest
            ELSE <<p>> \o rest

KeyColumns(ks) ==
    IF HasMappings(ks) THEN MapParts(ks.key_parts, ks.column_mappings)
    ELSE ks.key_parts

ValueColumns(ks) ==
    IF HasMappings(ks) THEN MapParts(ks.value_parts, ks.column_mappings)
    ELSE ks.value_parts

_get_columns(ks) == Slice1(KeyColumns(ks)) \o ValueColumns(ks)

-----------------------------------------------------------------------------
(* Inputs *)

JobId == "job1"

\* the keyset definitions of SpecColumns
ColumnMappings == UNION {[S -> MapValues] : S \in SUBSET PartNames}

AllKeysets ==
    LET kps == SeqsUpTo(PartNames, 1, MaxKeyParts)
        vps == SeqsUpTo(PartNames, 0, MaxValueParts)
    IN {[table |-> "orders", key_parts |-> kp, value_parts |-> vp] :
            kp \in kps, vp \in vps}
       \cup
       {[table |-> "orders", key_parts |-> kp, value_parts |-> vp,
         column_mappings |-> cm] :
            kp \in kps, vp \in vps, cm \in ColumnMappings}

\* the keyset definitions of the registry of a job: key parts (a, b) and
\* value part (c), unmapped or with one part renamed or mapped to omit
JobMappings ==
    {[n \in {"b"} |-> "x"], [n \in {"b"} |-> None],
     [n \in {"c"} |-> None], [n \in {"a"} |-> None]}

JobKeysets(table) ==
    {[table |-> table, key_parts |-> <<"a", "b">>, value_parts |-> <<"c">>]}
    \cup
    {[table |-> table, key_parts |-> <<"a", "b">>, value_parts |-> <<"c">>,
      column_mappings |-> cm] : cm \in JobMappings}

\* params.keysets: t1 has any of these keysets, t2 the unmapped one, on the
\* table of t1 or on another
Registries ==
    {[pk \in PKeys |-> IF pk = "t1" THEN k1 ELSE k2] :
        k1 \in JobKeysets("orders"),
        k2 \in {ks \in JobKeysets("orders") \cup JobKeysets("events") :
                   "column_mappings" \notin DOMAIN ks}}

\* the n-th record of a stream, of partition key pk: a key tuple and a value
\* tuple with one component per key part and per value part of the keyset;
\* the key says which record it is
RecordOf(pk, ks, n) ==
    [key   |-> <<pk>> \o [i \in 1..(Len(ks.key_parts) - 1) |->
                            IF i = 1 THEN "k" \o ToString(n)
                            ELSE "k" \o ToString(n) \o "." \o ToString(i)],
     value |-> [j \in 1..Len(ks.value_parts) |-> "v" \o ToString(j)]]

Streams(reg) ==
    {[i \in 1..Len(ps) |-> RecordOf(ps[i], reg[ps[i]], i)] :
        ps \in SeqsUpTo(PKeys, 0, MaxStream)}

ParamsOf(reg) ==
    {[keysets |-> reg]}
    \cup {[keysets |-> reg, clean_db_files |-> b] : b \in BOOLEAN}

-----------------------------------------------------------------------------
(* Helpers of the steps *)

DataFile(tempfile, s3, tablename, cols) ==
    [tempfile |-> tempfile, s3 |-> s3, tablename |-> tablename, columns |-> cols]

\* ','.join(columns)
RECURSIVE Join(_)
Join(cols) ==
    IF cols = <<>> THEN ""
    ELSE IF Len(cols) = 1 THEN cols[1]
    ELSE cols[1] \o "," \o Join(Tail(cols))

\* tempfile.mktemp(prefix=pivot, dir='/tmp'): the names it can return, none
\* of which exists
Suffixes == {ToString(n) : n \in 1..((MaxStream + 1) \div 2)}

mktemp(prefix, d) ==
    {"/tmp/" \o prefix \o "_" \o s : s \in Suffixes} \ DOMAIN d

\* every record taken for the first of a keyset
IsNewKeysetAlways(pv, key) == TRUE

\* pivot != key[0]
IsNewKeyset(pv, key) == pv # key[1]

\* tuple(key[1:]) + tuple(value)
Fields(rec) == Slice1(rec.key) \o rec.value

Min(a, b) == IF a < b THEN a ELSE b

\* dict(zip(columns, fields)): zip stops at the shorter of the two, and a
\* later pair of the same column replaces an earlier one.  ujson.dumps writes
\* the dict as one JSON object, which is this set of column/value pairs.
DictZip(cols, fields) ==
    LET n == Min(Len(cols), Len(fields))
        last(c) == CHOOSE i \in 1..n :
                      /\ cols[i] = c
                      /\ \A j \in 1..n : cols[j] = c => j <= i
    IN [c \in {cols[i] : i \in 1..n} |-> fields[last(c)]]

\* tmp.close() left out
CloseFileNot(open, f) == open

\* tmp.close(): the files still open afterwards
CloseFile(open, f) == open \ {f}

\* the log of the calls after tmp.close(), when there is a file to close
LogClose(lg, f) == IF f = None THEN lg ELSE Append(lg, [op |-> "close", arg |-> f, ok |-> TRUE])

\* the log of the calls after gzip.open(tmp_file_name, 'wb', 1)
LogOpen(lg, f) == Append(lg, [op |-> "open", arg |-> f, ok |-> TRUE])

\* the line written in front of the lines of the file
WriteLineFirst(content, line) == <<line>> \o content

\* tmp.write(ujson.dumps(data) + '\n')
WriteLine(content, line) == Append(content, line)

\* total_lines = 1
NextTotalAssigned(t) == 1

\* total_lines += 1
NextTotal(t) == t + 1

Event(op, arg, ok) == [op |-> op, arg |-> arg, ok |-> ok]

Raised(e) == [kind |-> "raised", value |-> 0, error |-> e]

Returned(v) == [kind |-> "returned", value |-> v, error |-> NoExc]

Running == [kind |-> "running", value |-> 0, error |-> NoExc]

\* getattr(params, 'clean_db_files', True)
CleanDbFiles(p) ==
    IF "clean_db_files" \in DOMAIN p THEN p.clean_db_files ELSE TRUE

\* fle = tmpfile whatever the DataFile has in s3
SourceLocal(df) == df.tempfile

\* "s3://%s/%s" % (s3_bucket, s3_key) or tmpfile
Source(df) ==
    IF df.s3[1] # None /\ df.s3[1] # "" /\ df.s3[2] # None /\ df.s3[2] # ""
    THEN "s3://" \o df.s3[1] \o "/" \o df.s3[2]
    ELSE df.tempfile

\* query % (tablename, columns, fle, extras)
Command(df, ex) ==
    "COPY " \o df.tablename \o " (" \o df.columns \o ") FROM '" \o Source(df)
    \o "' WITH " \o ex \o " JSON 'auto' TRUNCATECOLUMNS GZIP"

\* k.key = tmpfile
S3KeyPath(job, tmpfile) == tmpfile

\* k.key = "%s-%s" % (job_id, tmpfile)
S3Key(job, tmpfile) == job \o "-" \o tmpfile

\* the report with len(datafiles) for len(params.keysets)
ReportFiles(total, p) ==
    "Processed " \o ToString(total) \o " records in "
    \o ToString(Len(datafiles)) \o " keysets."

\* "Processed %d records in %d keysets." % (total_lines, len(params.keysets))
Report(total, p) ==
    "Processed " \o ToString(total) \o " records in "
    \o ToString(Cardinality(DOMAIN p.keysets)) \o " keysets."

-----------------------------------------------------------------------------
(* The job *)

\* the locals and the collaborators before the first step
Idle ==
    /\ pos = 0
    /\ pivot = None
    /\ columns = <<>>
    /\ total_lines = 0
    /\ tmp = None
    /\ datafiles = <<>>
    /\ rval = <<>>
    /\ idx = 1
    /\ extras = ""
    /\ disk = <<>>
    /\ openFiles = {}
    /\ s3store = <<>>
    /\ connection = "none"
    /\ cursor = "none"
    /\ pendingTx = {}
    /\ visible = {}
    /\ exc = NoExc
    /\ outcome = Running
    /\ log = <<>>

Init ==
    /\ pipeline \in {"postgres", "redshift"}
    /\ \E reg \in Registries :
          /\ params \in ParamsOf(reg)
          /\ stream \in Streams(reg)
    /\ bucket_name \in IF pipeline = "redshift" THEN {None, "infernyx"} ELSE {None}
    /\ pc = "build"
    /\ keyset = None
    /\ jobs = <<>>
    /\ Idle

inputVars == <<stream, params, pipeline, bucket_name, jobs>>
buildVars == <<pos, pivot, keyset, columns, total_lines, tmp>>
dbVars == <<connection, cursor, pendingTx, visible>>

\* an exception leaves the pipeline function: nothing catches it
Propagate(e) ==
    /\ exc' = e
    /\ outcome' = Raised(e)
    /\ pc' = "done"

(* _build_datafiles ------------------------------------------------------ *)

\* one iteration of the for loop, to the end
BuildRecord ==
    /\ pc = "build"
    /\ pos < Len(stream)
    /\ LET rec == stream[pos + 1]
           new == IsNewKeyset(pivot, rec.key)
           ks == IF new THEN params.keysets[rec.key[1]] ELSE keyset
           cols == IF new THEN _get_columns(ks) ELSE columns
       IN \E name \in IF new THEN mktemp(rec.key[1], disk) ELSE {tmp} :
            /\ pivot' = rec.key[1]
            /\ keyset' = ks
            /\ columns' = cols
            /\ tmp' = name
            /\ openFiles' = IF new THEN CloseFile(openFiles, tmp) \cup {name}
                            ELSE openFiles
            /\ log' = IF new THEN LogOpen(LogClose(log, tmp), name) ELSE log
            /\ datafiles' = IF new
                            THEN Append(datafiles,
                                   DataFile(name, <<None, None>>, ks.table, Join(cols)))
                            ELSE datafiles
            /\ disk' = LET opened == IF new THEN (name :> <<>>) @@ disk ELSE disk
                       IN [opened EXCEPT ![name] = WriteLine(@, DictZip(cols, Fields(rec)))]
            /\ total_lines' = NextTotal(total_lines)
    /\ pos' = pos + 1
    /\ UNCHANGED <<inputVars, pc, rval, idx, extras, s3store, dbVars, exc,
                   outcome>>

\* an iteration that finds a new keyset and fails to open its file
\* (gzip.open raises): the previous file is closed, no file is created
BuildFailOpen ==
    /\ pc = "build"
    /\ pos < Len(stream)
    /\ LET rec == stream[pos + 1]
       IN /\ IsNewKeyset(pivot, rec.key)
          /\ pivot' = rec.key[1]
          /\ keyset' = params.keysets[rec.key[1]]
          /\ openFiles' = CloseFile(openFiles, tmp)
          /\ log' = LogClose(log, tmp)
          /\ Propagate(<<"StreamError", "open">>)
    /\ pos' = pos + 1
    /\ UNCHANGED <<inputVars, columns, total_lines, tmp, datafiles, rval, idx,
                   extras, disk, s3store, dbVars>>

\* an iteration whose ujson.dumps or tmp.write raises: the file of a new
\* keyset is created and listed, the line is not written
BuildFailWrite ==
    /\ pc = "build"
    /\ pos < Len(stream)
    /\ LET rec == stream[pos + 1]
           new == IsNewKeyset(pivot, rec.key)
           ks == IF new THEN params.keysets[rec.key[1]] ELSE keyset
           cols == IF new THEN _get_columns(ks) ELSE columns
       IN \E name \in IF new THEN mktemp(rec.key[1], disk) ELSE {tmp} :
            /\ pivot' = rec.key[1]
            /\ keyset' = ks
            /\ columns' = cols
            /\ tmp' = name
            /\ openFiles' = IF new THEN CloseFile(openFiles, tmp) \cup {name}
                            ELSE openFiles
            /\ log' = IF new THEN LogOpen(LogClose(log, tmp), name) ELSE log
            /\ datafiles' = IF new
                            THEN Append(datafiles,
                                   DataFile(name, <<None, None>>, ks.table, Join(cols)))
                            ELSE datafiles
            /\ disk' = IF new THEN (name :> <<>>) @@ disk ELSE disk
    /\ pos' = pos + 1
    /\ Propagate(<<"StreamError", "write">>)
    /\ UNCHANGED <<inputVars, total_lines, rval, idx, extras, s3store, dbVars>>

\* the stream has ended: close the last file and return (datafiles,
\* total_lines) to the pipeline, which goes on to its next call
BuildReturn ==
    /\ pc = "build"
    /\ pos = Len(stream)
    /\ openFiles' = CloseFile(openFiles, tmp)
    /\ log' = LogClose(log, tmp)
    /\ pc' = IF pipeline = "redshift" THEN "upload" ELSE "connect"
    /\ idx' = 1
    /\ UNCHANGED <<inputVars, buildVars, datafiles, rval, extras, disk,
                   s3store, dbVars, exc, outcome>>

(* _upload_s3 ------------------------------------------------------------ *)

\* the iteration with rval.insert(0, ...) for rval.append(...)
UploadFilePrepend ==
    /\ pc = "upload"
    /\ idx <= Len(datafiles)
    /\ Truthy(bucket_name)
    /\ LET df == datafiles[idx]
           key == S3Key(JobId, df.tempfile)
       IN /\ df.tempfile \in DOMAIN disk
          /\ s3store' = (<<bucket_name, key>> :> disk[df.tempfile]) @@ s3store
          /\ rval' = <<DataFile(df.tempfile, <<bucket_name, key>>,
                                df.tablename, df.columns)>> \o rval
          /\ log' = Append(log, Event("put", key, TRUE))
    /\ idx' = idx + 1
    /\ UNCHANGED <<inputVars, buildVars, pc, datafiles, extras, disk,
                   openFiles, dbVars, exc, outcome>>

\* one iteration of the for loop: the file is stored under its key.  The
\* object store takes an object only into a named bucket; with bucket_name
\* None or '' the request cannot be built and the upload raises.
UploadFile ==
    /\ pc = "upload"
    /\ idx <= Len(datafiles)
    /\ Truthy(bucket_name)
    /\ LET df == datafiles[idx]
           key == S3Key(JobId, df.tempfile)
       IN /\ df.tempfile \in DOMAIN disk
          /\ s3store' = (<<bucket_name, key>> :> disk[df.tempfile]) @@ s3store
          /\ rval' = Append(rval, DataFile(df.tempfile, <<bucket_name, key>>,
                                           df.tablename, df.columns))
          /\ log' = Append(log, Event("put", key, TRUE))
    /\ idx' = idx + 1
    /\ UNCHANGED <<inputVars, buildVars, pc, datafiles, extras, disk,
                   openFiles, dbVars, exc, outcome>>

\* a failed upload caught and logged, the loop going on with the next file
UploadFailCaught ==
    /\ pc = "upload"
    /\ idx <= Len(datafiles)
    /\ log' = Append(log, Event("put", S3Key(JobId, datafiles[idx].tempfile), FALSE))
    /\ exc' = <<"StagingError", datafiles[idx].tempfile>>
    /\ rval' = Append(rval, datafiles[idx])
    /\ idx' = idx + 1
    /\ UNCHANGED <<inputVars, buildVars, pc, datafiles, extras, disk,
                   openFiles, s3store, dbVars, outcome>>

\* an iteration in which reading the file or the upload raises (a checksum
\* mismatch included)
UploadFail ==
    /\ pc = "upload"
    /\ idx <= Len(datafiles)
    /\ log' = Append(log, Event("put", S3Key(JobId, datafiles[idx].tempfile), FALSE))
    /\ Propagate(<<"StagingError", datafiles[idx].tempfile>>)
    /\ UNCHANGED <<inputVars, buildVars, datafiles, rval, idx, extras, disk,
                   openFiles, s3store, dbVars>>

\* return rval; insert_redshift rebinds datafiles
UploadReturn ==
    /\ pc = "upload"
    /\ idx > Len(datafiles)
    /\ datafiles' = rval
    /\ pc' = "credentials"
    /\ UNCHANGED <<inputVars, buildVars, rval, idx, extras, disk, openFiles,
                   s3store, dbVars, exc, outcome, log>>

(* _get_sts_credentials -------------------------------------------------- *)

CredentialsOk ==
    /\ pc = "credentials"
    /\ extras' = "credentials 'aws_access_key_id=K;aws_secret_access_key=S;token=T'"
    /\ log' = Append(log, Event("get_instance_metadata", "", TRUE))
    /\ pc' = "connect"
    /\ idx' = 1
    /\ UNCHANGED <<inputVars, buildVars, datafiles, rval, disk, openFiles,
                   s3store, dbVars, exc, outcome>>

\* no credential set in the metadata
CredentialsFail ==
    /\ pc = "credentials"
    /\ log' = Append(log, Event("get_instance_metadata", "", FALSE))
    /\ Propagate(<<"CredentialError", "">>)
    /\ UNCHANGED <<inputVars, buildVars, datafiles, rval, idx, extras, disk,
                   openFiles, s3store, dbVars>>

(* _insert_datafiles ----------------------------------------------------- *)

\* _connect returns a connection and a cursor; psycopg2 opens the
\* transaction with the first statement
ConnectOk ==
    /\ pc = "connect"
    /\ connection' = "open"
    /\ cursor' = "open"
    /\ log' = Append(log, Event("connect", "", TRUE))
    /\ pc' = "load"
    /\ idx' = 1
    /\ UNCHANGED <<inputVars, buildVars, datafiles, rval, extras, disk,
                   openFiles, s3store, pendingTx, visible, exc, outcome>>

\* psycopg2.connect raises: the call is outside the try statement
ConnectFail ==
    /\ pc = "connect"
    /\ log' = Append(log, Event("connect", "", FALSE))
    /\ Propagate(<<"ConnectError", "">>)
    /\ UNCHANGED <<inputVars, buildVars, datafiles, rval, idx, extras, disk,
                   openFiles, s3store, dbVars>>

\* one iteration of the for loop of the try block: the statement loads the
\* rows of the file inside the transaction
ExecuteOk ==
    /\ pc = "load"
    /\ idx <= Len(datafiles)
    /\ log' = Append(log, Event("execute", Command(datafiles[idx], extras), TRUE))
    /\ pendingTx' = pendingTx \cup {idx}
    /\ idx' = idx + 1
    /\ UNCHANGED <<inputVars, buildVars, pc, datafiles, rval, extras, disk,
                   openFiles, s3store, connection, cursor, visible, exc,
                   outcome>>

\* cursor.execute raises: control goes to the except clause
ExecuteFail ==
    /\ pc = "load"
    /\ idx <= Len(datafiles)
    /\ log' = Append(log, Event("execute", Command(datafiles[idx], extras), FALSE))
    /\ exc' = <<"LoadError", datafiles[idx].tempfile>>
    /\ pc' = "except"
    /\ UNCHANGED <<inputVars, buildVars, datafiles, rval, idx, extras, disk,
                   openFiles, s3store, dbVars, outcome>>

\* what connection.rollback() leaves of the transaction
RolledBack(pending) == {}

\* the except clause without `raise e`
ReraiseNothing(e) == NoExc

\* the exception Python has in flight after `raise e`
Reraise(e) == e

\* the except clause with connection.commit() for connection.rollback()
RollbackCommits ==
    /\ pc = "except"
    /\ log' = Append(log, Event("rollback", "", TRUE))
    /\ visible' = visible \cup pendingTx
    /\ pendingTx' = {}
    /\ exc' = Reraise(exc)
    /\ pc' = "finally"
    /\ UNCHANGED <<inputVars, buildVars, datafiles, rval, idx, extras, disk,
                   openFiles, s3store, connection, cursor, outcome>>

\* except clause: connection.rollback(); raise e
Rollback ==
    /\ pc = "except"
    /\ log' = Append(log, Event("rollback", "", TRUE))
    /\ pendingTx' = RolledBack(pendingTx)
    /\ exc' = Reraise(exc)
    /\ pc' = "finally"
    /\ UNCHANGED <<inputVars, buildVars, datafiles, rval, idx, extras, disk,
                   openFiles, s3store, connection, cursor, visible, outcome>>

\* else clause: connection.commit() makes the rows of the transaction
\* visible
CommitOk ==
    /\ pc = "load"
    /\ idx > Len(datafiles)
    /\ log' = log \o <<Event("commit", "", TRUE),
                       Event("report", Report(total_lines, params), TRUE)>>
    /\ visible' = visible \cup pendingTx
    /\ pendingTx' = {}
    /\ pc' = "finally"
    /\ UNCHANGED <<inputVars, buildVars, datafiles, rval, idx, extras, disk,
                   openFiles, s3store, connection, cursor, exc, outcome>>

\* connection.commit() inside the try block: its error goes to the except
\* clause
CommitFailHandled ==
    /\ pc = "load"
    /\ idx > Len(datafiles)
    /\ log' = Append(log, Event("commit", "", FALSE))
    /\ exc' = <<"CommitError", "">>
    /\ pc' = "except"
    /\ UNCHANGED <<inputVars, buildVars, datafiles, rval, idx, extras, disk,
                   openFiles, s3store, dbVars, outcome>>

\* else clause: connection.commit() raises, nothing is committed
CommitFail ==
    /\ pc = "load"
    /\ idx > Len(datafiles)
    /\ log' = Append(log, Event("commit", "", FALSE))
    /\ exc' = <<"CommitError", "">>
    /\ pc' = "finally"
    /\ UNCHANGED <<inputVars, buildVars, datafiles, rval, idx, extras, disk,
                   openFiles, s3store, dbVars, outcome>>

\* finally clause: cursor.close(); connection.close().  Closing discards
\* what the transaction has not committed.
CloseConnection ==
    /\ pc = "finally"
    /\ cursor' = "closed"
    /\ connection' = "closed"
    /\ pendingTx' = {}
    /\ log' = log \o <<Event("cursor.close", "", TRUE),
                       Event("connection.close", "", TRUE)>>
    /\ pc' = "cleanup"
    /\ idx' = 1
    /\ UNCHANGED <<inputVars, buildVars, datafiles, rval, extras, disk,
                   openFiles, s3store, visible, exc, outcome>>

\* finally clause, one iteration of the for loop: clean_db_files is false
CleanupSkip ==
    /\ pc = "cleanup"
    /\ idx <= Len(datafiles)
    /\ ~CleanDbFiles(params)
    /\ idx' = idx + 1
    /\ UNCHANGED <<inputVars, buildVars, pc, datafiles, rval, extras, disk,
                   openFiles, s3store, dbVars, exc, outcome, log>>

\* finally clause, one iteration of the for loop: os.unlink removes the file
CleanupUnlink ==
    /\ pc = "cleanup"
    /\ idx <= Len(datafiles)
    /\ CleanDbFiles(params)
    /\ datafiles[idx].tempfile \in DOMAIN disk
    /\ disk' = [f \in DOMAIN disk \ {datafiles[idx].tempfile} |-> disk[f]]
    /\ log' = Append(log, Event("unlink", datafiles[idx].tempfile, TRUE))
    /\ idx' = idx + 1
    /\ UNCHANGED <<inputVars, buildVars, pc, datafiles, rval, extras,
                   openFiles, s3store, dbVars, exc, outcome>>

\* the iteration without the inner try: the error of os.unlink leaves the
\* loop and replaces the exception in flight
CleanupUnlinkFailRaises ==
    /\ pc = "cleanup"
    /\ idx <= Len(datafiles)
    /\ CleanDbFiles(params)
    /\ log' = Append(log, Event("unlink", datafiles[idx].tempfile, FALSE))
    /\ exc' = <<"UnlinkError", datafiles[idx].tempfile>>
    /\ idx' = Len(datafiles) + 1
    /\ UNCHANGED <<inputVars, buildVars, pc, datafiles, rval, extras, disk,
                   openFiles, s3store, dbVars, outcome>>

\* finally clause, one iteration of the for loop: os.unlink raises, the
\* inner except clause logs it
CleanupUnlinkFail ==
    /\ pc = "cleanup"
    /\ idx <= Len(datafiles)
    /\ CleanDbFiles(params)
    /\ log' = Append(log, Event("unlink", datafiles[idx].tempfile, FALSE))
    /\ idx' = idx + 1
    /\ UNCHANGED <<inputVars, buildVars, pc, datafiles, rval, extras, disk,
                   openFiles, s3store, dbVars, exc, outcome>>

\* the finally clause has ended with an exception in flight: it leaves
\* _insert_datafiles and the pipeline function
LoaderRaise ==
    /\ pc = "cleanup"
    /\ idx > Len(datafiles)
    /\ exc # NoExc
    /\ outcome' = Raised(exc)
    /\ pc' = "done"
    /\ UNCHANGED <<inputVars, buildVars, datafiles, rval, idx, extras, disk,
                   openFiles, s3store, dbVars, exc, log>>

(* insert_postgres / insert_redshift -------------------------------------- *)

\* _insert_datafiles has returned: return total_lines
PipelineReturn ==
    /\ pc = "cleanup"
    /\ idx > Len(datafiles)
    /\ exc = NoExc
    /\ outcome' = Returned(total_lines)
    /\ pc' = "done"
    /\ UNCHANGED <<inputVars, buildVars, datafiles, rval, idx, extras, disk,
                   openFiles, s3store, dbVars, exc, log>>

Next ==
    \/ BuildRecord
    \/ BuildFailOpen
    \/ BuildFailWrite
    \/ BuildReturn
    \/ UploadFile
    \/ UploadFail
    \/ UploadReturn
    \/ CredentialsOk
    \/ CredentialsFail
    \/ ConnectOk
    \/ ConnectFail
    \/ ExecuteOk
    \/ ExecuteFail
    \/ Rollback
    \/ CommitOk
    \/ CommitFail
    \/ CloseConnection
    \/ CleanupSkip
    \/ CleanupUnlink
    \/ CleanupUnlinkFail
    \/ LoaderRaise
    \/ PipelineReturn

Spec == Init /\ [][Next]_vars

TypeOK ==
    /\ pc \in {"build", "upload", "credentials", "connect", "load", "except",
               "finally", "cleanup", "done", "resolve", "resolved", "jobs"}
    /\ pos \in 0..Len(stream)
    /\ total_lines \in 0..Len(stream)
    /\ outcome.kind \in {"running", "raised", "returned"}
    /\ connection \in {"none", "open", "closed"}
    /\ cursor \in {"none", "open", "closed"}
    /\ openFiles \subseteq DOMAIN disk

-----------------------------------------------------------------------------
(* _get_columns on its own *)

InitColumns ==
    /\ keyset \in AllKeysets
    /\ pc = "resolve"
    /\ stream = <<>>
    /\ params = [keysets |-> <<>>]
    /\ pipeline = "postgres"
    /\ bucket_name = None
    /\ jobs = <<>>
    /\ Idle

\* columns = _get_columns(keyset)
ResolveColumns ==
    /\ pc = "resolve"
    /\ columns' = _get_columns(keyset)
    /\ pc' = "resolved"
    /\ UNCHANGED <<inputVars, pos, pivot, keyset, total_lines, tmp, datafiles,
                   rval, idx, extras, disk, openFiles, s3store, dbVars, exc,
                   outcome, log>>

NextColumns == ResolveColumns

SpecColumns == InitColumns /\ [][NextColumns]_vars

-----------------------------------------------------------------------------
(* Two jobs at the same time *)

Jobs == {"job1", "job2"}

\* the locals of a job before its first record; keys are the partition keys
\* of its stream
JobStart(keys) ==
    [pc |-> "loop", keys |-> keys, pos |-> 0, pivot |-> None,
     tmp_file_name |-> None, tmp |-> None, datafiles |-> <<>>, idx |-> 1,
     held |-> {}, loaded |-> {}]

InitJobs ==
    /\ jobs \in [Jobs -> {JobStart(ks) : ks \in SeqsUpTo(PKeys, 0, MaxJobStream)}]
    /\ pc = "jobs"
    /\ keyset = None
    /\ stream = <<>>
    /\ params = [keysets |-> <<>>]
    /\ pipeline = "postgres"
    /\ bucket_name = None
    /\ Idle

jobFrame == <<stream, params, pipeline, bucket_name, pc, pos, pivot, keyset,
              columns, total_lines, tmp, datafiles, rval, idx, extras,
              openFiles, s3store, connection, cursor, pendingTx, visible,
              exc, outcome, log>>

\* _build_datafiles of job j, a record of a new keyset, up to
\* tempfile.mktemp: the name returned is one that does not exist now
JobMktemp(j) ==
    LET me == jobs[j]
    IN /\ me.pc = "loop"
       /\ me.pos < Len(me.keys)
       /\ IsNewKeyset(me.pivot, <<me.keys[me.pos + 1]>>)
       /\ \E name \in mktemp(me.keys[me.pos + 1], disk) :
             jobs' = [jobs EXCEPT ![j] =
                        [me EXCEPT !.pivot = me.keys[me.pos + 1],
                                   !.tmp = None,
                                   !.tmp_file_name = name,
                                   !.pc = "named"]]
       /\ UNCHANGED <<disk, jobFrame>>

\* the rest of that iteration: gzip.open(tmp_file_name, 'wb', 1) makes the
\* file or empties the one that is there, the DataFile is listed and the
\* line of the record is written
JobOpen(j) ==
    LET me == jobs[j]
        name == me.tmp_file_name
    IN /\ me.pc = "named"
       /\ disk' = (name :> <<<<j, me.pos + 1>>>>) @@ disk
       /\ jobs' = [jobs EXCEPT ![j] =
                     [me EXCEPT !.tmp = name,
                                !.datafiles = Append(me.datafiles, name),
                                !.held = me.held \cup {name},
                                !.pos = me.pos + 1,
                                !.pc = "loop"]]
       /\ UNCHANGED jobFrame

\* an iteration for a record of the current keyset: the line goes to tmp (a
\* file that was unlinked meanwhile takes the line and stays gone)
JobWrite(j) ==
    LET me == jobs[j]
    IN /\ me.pc = "loop"
       /\ me.pos < Len(me.keys)
       /\ ~IsNewKeyset(me.pivot, <<me.keys[me.pos + 1]>>)
       /\ disk' = IF me.tmp \in DOMAIN disk
                  THEN [disk EXCEPT ![me.tmp] = WriteLine(@, <<j, me.pos + 1>>)]
                  ELSE disk
       /\ jobs' = [jobs EXCEPT ![j] = [me EXCEPT !.pos = me.pos + 1]]
       /\ UNCHANGED jobFrame

\* the stream of job j has ended; _insert_datafiles loads the files of its
\* list that are there and commits
JobLoad(j) ==
    LET me == jobs[j]
    IN /\ me.pc = "loop"
       /\ me.pos = Len(me.keys)
       /\ jobs' = [jobs EXCEPT ![j] =
                     [me EXCEPT !.tmp = None,
                                !.loaded = UNION {{disk[f][n] : n \in 1..Len(disk[f])} :
                                                    f \in {me.datafiles[i] : i \in 1..Len(me.datafiles)}
                                                          \cap DOMAIN disk},
                                !.idx = 1,
                                !.pc = "cleanup"]]
       /\ UNCHANGED <<disk, jobFrame>>

\* finally clause of job j, one iteration: os.unlink(tmpfile), whose error
\* (the file is gone) is logged
JobUnlink(j) ==
    LET me == jobs[j]
    IN /\ me.pc = "cleanup"
       /\ me.idx <= Len(me.datafiles)
       /\ disk' = [f \in DOMAIN disk \ {me.datafiles[me.idx]} |-> disk[f]]
       /\ jobs' = [jobs EXCEPT ![j] =
                     [me EXCEPT !.held = me.held \ {me.datafiles[me.idx]},
                                !.idx = me.idx + 1]]
       /\ UNCHANGED jobFrame

JobReturn(j) ==
    LET me == jobs[j]
    IN /\ me.pc = "cleanup"
       /\ me.idx > Len(me.datafiles)
       /\ jobs' = [jobs EXCEPT ![j] = [me EXCEPT !.pc = "done"]]
       /\ UNCHANGED <<disk, jobFrame>>

NextJobs ==
    \E j \in Jobs :
        \/ JobMktemp(j)
        \/ JobOpen(j)
        \/ JobWrite(j)
        \/ JobLoad(j)
        \/ JobUnlink(j)
        \/ JobReturn(j)

SpecJobs == InitJobs /\ [][NextJobs]_vars

-----------------------------------------------------------------------------
(* Properties *)

\* the positions of log with a call op that returned (ok) or raised (~ok)
Calls(op, ok) == {i \in 1..Len(log) : log[i].op = op /\ log[i].ok = ok}

Attempts(op) == Calls(op, TRUE) \cup Calls(op, FALSE)

\* _build_datafiles has returned its list
Built == pc \notin {"build", "resolve", "resolved", "jobs"} /\ exc[1] # "StreamError"

\* the first key elements of the first n records
PartitionKeys(n) == [i \in 1..n |-> stream[i].key[1]]

\* the number of maximal runs of equal neighbours in a sequence
RECURSIVE Runs(_)
Runs(ks) ==
    IF ks = <<>> THEN 0
    ELSE IF Len(ks) = 1 THEN 1
    ELSE Runs(Tail(ks)) + (IF ks[1] # ks[2] THEN 1 ELSE 0)

\* the lines of the files of a list of DataFiles
RECURSIVE SumLines(_)
SumLines(dfs) ==
    IF dfs = <<>> THEN 0
    ELSE Len(disk[Head(dfs).tempfile]) + SumLines(Tail(dfs))

\* C6: the number of Batch Files of the Partitioner is the number of maximal
\* contiguous runs of equal partition keys of the stream, after every record
\* and when the list is returned; a key that comes back after another key
\* gets a further file.
C6_BatchFilePerRun ==
    /\ pc = "build" => Len(datafiles) = Runs(PartitionKeys(pos))
    /\ Built => Len(datafiles) = Runs(PartitionKeys(Len(stream)))

C6_Witness ==
    /\ Built
    /\ Len(datafiles) = 3
    /\ stream[1].key[1] = stream[3].key[1]
    /\ stream[1].key[1] # stream[2].key[1]
    /\ datafiles[1].tablename = datafiles[3].tablename
    /\ datafiles[1].tempfile # datafiles[3].tempfile

\* the mapping of one part name as section 4.1 states it
MappedName(ks, p) ==
    IF "column_mappings" \in DOMAIN ks /\ p \in DOMAIN ks.column_mappings
    THEN ks.column_mappings[p]
    ELSE p

Omitted(ks, p) == ~Truthy(MappedName(ks, p))

RECURSIVE Surviving(_, _)
Surviving(ks, parts) ==
    IF parts = <<>> THEN <<>>
    ELSE IF Omitted(ks, Head(parts)) THEN Surviving(ks, Tail(parts))
    ELSE <<MappedName(ks, Head(parts))>> \o Surviving(ks, Tail(parts))

\* C7: _get_columns returns the key parts after the partition discriminator,
\* in order, then the value parts, in order, each replaced by its mapped name
\* or dropped when its mapping is empty, and nothing else is dropped.
C7_ColumnsAsSpecified ==
    pc = "resolved" =>
        columns = Surviving(keyset, Tail(keyset.key_parts))
                  \o Surviving(keyset, keyset.value_parts)

\* the number of parts, other than the partition discriminator, mapped to omit
OmitCount(ks) ==
    Cardinality({i \in 2..Len(ks.key_parts) : Omitted(ks, ks.key_parts[i])})
    + Cardinality({j \in 1..Len(ks.value_parts) : Omitted(ks, ks.value_parts[j])})

\* C8: the length of the resolved column list is the value arity plus the key
\* arity minus one minus the number of parts mapped to omit, for the records
\* of the keyset.
C8_ColumnCount ==
    pc = "resolved" =>
        LET rec == RecordOf("t1", keyset, 1)
        IN Len(columns) = Len(rec.value) + Len(rec.key) - 1 - OmitCount(keyset)

\* C9: every record written has as many fields (key without the partition
\* discriminator, then value) as its Batch File has columns, and the line
\* written has every one of these fields.
C9_FieldArity ==
    (pc = "build" /\ pos > 0) =>
        LET fields == Fields(stream[pos])
            line == disk[tmp][Len(disk[tmp])]
        IN /\ Len(fields) = Len(columns)
           /\ Cardinality(DOMAIN line) = Len(fields)

\* C10: the count a pipeline returns is the number of records of the stream
\* and the number of lines in the files of the Batch Files; an empty stream
\* gives no Batch File, a count of zero and no file.
C10_RecordCount ==
    /\ outcome.kind = "returned" => outcome.value = Len(stream)
    /\ (Built /\ pc \in {"upload", "credentials", "connect", "load"}) =>
          /\ total_lines = Len(stream)
          /\ SumLines(datafiles) = total_lines
    /\ (stream = <<>> /\ pc \notin {"resolve", "resolved", "jobs"}) =>
          /\ DOMAIN disk = {}
          /\ datafiles = <<>>
          /\ total_lines = 0
          /\ outcome.kind = "returned" => outcome.value = 0

C10_Witness ==
    /\ outcome.kind = "returned"
    /\ outcome.value >= 2
    /\ Len(datafiles) >= 2


\* the index in datafiles of the statement that failed, when one did
FailedStatement == Cardinality(Calls("execute", TRUE)) + 1

LoadFailed == Calls("execute", FALSE) # {}

\* the except clause of _insert_datafiles has ended
Handled == LoadFailed /\ pc \in {"finally", "cleanup", "done"}

\* C1: the rows of a job are visible all together or not at all; they become
\* visible by one commit issued after every statement has succeeded; after
\* the n-th statement has failed the transaction is rolled back and no row of
\* statements 1..n-1 is visible or pending.
C1_AtomicLoad ==
    /\ visible \in {{}, 1..Len(datafiles)}
    /\ visible # {} =>
          /\ Cardinality(Calls("commit", TRUE)) = 1
          /\ Cardinality(Calls("execute", TRUE)) = Len(datafiles)
          /\ \A i \in Calls("execute", TRUE) : \A c \in Calls("commit", TRUE) : i < c
          /\ ~LoadFailed
    /\ Handled =>
          /\ Cardinality(Calls("rollback", TRUE)) = 1
          /\ Attempts("commit") = {}
          /\ pendingTx = {}
          /\ visible = {}

C1_Witness ==
    /\ pc = "done"
    /\ LoadFailed
    /\ FailedStatement >= 2
    /\ visible = {}

\* C2: when a load statement has raised, the pipeline ends by raising that
\* error, after the rollback, the closing and the cleanup attempts, and it
\* never returns the record count.
C2_LoadFailureRaised ==
    LoadFailed =>
        /\ outcome.kind # "returned"
        /\ pc = "done" =>
              /\ outcome = Raised(<<"LoadError", datafiles[FailedStatement].tempfile>>)
              /\ \E r \in Calls("rollback", TRUE) :
                    /\ \A x \in Calls("execute", FALSE) : x < r
                    /\ \A u \in Attempts("unlink") : r < u
              /\ CleanDbFiles(params) =>
                    \A i \in 1..Len(datafiles) :
                        \E u \in Attempts("unlink") : log[u].arg = datafiles[i].tempfile

C2_Witness ==
    /\ pc = "done"
    /\ LoadFailed
    /\ outcome.kind = "raised"
    /\ outcome.error[1] = "LoadError"
    /\ Attempts("unlink") # {}

\* _insert_datafiles was called
LoaderInvoked == Attempts("connect") # {}

\* C3: every invocation of the Bulk Loader closes the cursor and the
\* connection and then attempts to delete the local file of every Batch File,
\* unless clean_db_files is false, in which case it deletes nothing.
C3_LoaderCleanup ==
    (pc = "done" /\ LoaderInvoked) =>
        /\ cursor # "open"
        /\ connection # "open"
        /\ Calls("connect", TRUE) # {} =>
              /\ Cardinality(Calls("cursor.close", TRUE)) = 1
              /\ Cardinality(Calls("connection.close", TRUE)) = 1
        /\ \A u \in Attempts("unlink") :
              /\ Calls("cursor.close", TRUE) # {}
              /\ Calls("connection.close", TRUE) # {}
              /\ \A c \in Calls("cursor.close", TRUE) \cup Calls("connection.close", TRUE) :
                    c < u
        /\ IF CleanDbFiles(params)
           THEN \A i \in 1..Len(datafiles) :
                   \E u \in Attempts("unlink") : log[u].arg = datafiles[i].tempfile
           ELSE Attempts("unlink") = {}

\* C4: a job that has failed, with cleanup enabled and no deletion failing,
\* leaves none of its local temporary files on disk.
C4_NoOrphanedFiles ==
    (/\ pc = "done"
     /\ outcome.kind = "raised"
     /\ CleanDbFiles(params)
     /\ Calls("unlink", FALSE) = {}) => DOMAIN disk = {}

\* C5: when the partitioning, an upload or the credential lookup has failed,
\* no connection was opened, no statement was executed, nothing was committed
\* and no row of the job is pending or visible.
C5_ErrorsBeforeLoad ==
    exc[1] \in {"StreamError", "StagingError", "CredentialError"} =>
        /\ Attempts("connect") = {}
        /\ Attempts("execute") = {}
        /\ Attempts("commit") = {}
        /\ connection = "none"
        /\ cursor = "none"
        /\ pendingTx = {}
        /\ visible = {}

C5_Witness ==
    /\ pc = "done"
    /\ exc[1] = "StagingError"
    /\ Calls("put", TRUE) # {}
    /\ Calls("put", FALSE) # {}
    /\ visible = {}


\* the k-th smallest element of a set of positions
Nth(S, k) == CHOOSE i \in S : Cardinality({j \in S : j <= i}) = k

\* the name of the k-th file the Partitioner opened
OpenedFile(k) == log[Nth(Calls("open", TRUE), k)].arg

\* the k-th load statement handed to cursor.execute
Statement(k) == log[Nth(Attempts("execute"), k)].arg

CredentialClause ==
    "credentials 'aws_access_key_id=K;aws_secret_access_key=S;token=T'"

TablesTouched == {datafiles[i].tablename : i \in 1..Len(datafiles)}

\* C12 as claimed: the success report states the record count and the number
\* of distinct tables among the Batch Files loaded.
C12_ReportsTablesTouched ==
    \A r \in Calls("report", TRUE) :
        log[r].arg = "Processed " \o ToString(Len(stream)) \o " records in "
                     \o ToString(Cardinality(TablesTouched)) \o " keysets."

\* C12, amended: a load that commits is reported once, right after the
\* commit, with the record count of the stream and the number of keyset
\* definitions of the registry, whatever Batch Files were loaded.
C12_ReportsRegistrySize ==
    /\ Cardinality(Calls("report", TRUE)) = Cardinality(Calls("commit", TRUE))
    /\ \A r \in Calls("report", TRUE) :
          /\ r - 1 \in Calls("commit", TRUE)
          /\ log[r].arg = "Processed " \o ToString(Len(stream)) \o " records in "
                          \o ToString(Cardinality(DOMAIN params.keysets))
                          \o " keysets."

C12_Witness ==
    /\ Calls("report", TRUE) # {}
    /\ Len(datafiles) >= 1
    /\ Cardinality(TablesTouched) # Cardinality(DOMAIN params.keysets)


\* the run of equal partition keys the i-th record belongs to
RunOf(i) == Runs(PartitionKeys(i))

\* the records among the first n that belong to run k
RecordsOfRun(k, n) == {i \in 1..n : RunOf(i) = k}

\* C13: at most one batch file is open at any time; a file is opened for the
\* first record and for every record whose partition key differs from the
\* previous one, and for no other; the previous file was closed before;
\* every record is written to the file of its run; when the stream has ended
\* normally no file is open.
C13_FileDiscipline ==
    /\ Cardinality(openFiles) <= 1
    /\ pc = "build" =>
          /\ Cardinality(Calls("open", TRUE)) = RunOf(pos)
          /\ pos > 0 =>
                /\ tmp = OpenedFile(RunOf(pos))
                /\ openFiles = {tmp}
          /\ \A k \in 1..RunOf(pos) :
                Len(disk[OpenedFile(k)]) = Cardinality(RecordsOfRun(k, pos))
    /\ \A k \in 2..Cardinality(Calls("open", TRUE)) :
          LET o == Nth(Calls("open", TRUE), k)
          IN /\ o - 1 \in Calls("close", TRUE)
             /\ log[o - 1].arg = OpenedFile(k - 1)
    /\ Built =>
          /\ openFiles = {}
          /\ Cardinality(Calls("open", TRUE)) = RunOf(Len(stream))
          /\ Cardinality(Calls("close", TRUE)) = Cardinality(Calls("open", TRUE))
          /\ \A k \in 1..RunOf(Len(stream)) :
                \E c \in Calls("close", TRUE) :
                    /\ log[c].arg = OpenedFile(k)
                    /\ c > Nth(Calls("open", TRUE), k)

C13_Witness ==
    /\ Built
    /\ Len(stream) = 3
    /\ Len(datafiles) = 2
    /\ openFiles = {}
    /\ \E k \in 1..2 : Len(disk[OpenedFile(k)]) = 2


\* the partition key of run k
RunKey(k) ==
    LET first == CHOOSE i \in RecordsOfRun(k, Len(stream)) :
                    \A j \in RecordsOfRun(k, Len(stream)) : i <= j
    IN stream[first].key[1]

\* C14: the Batch File list is in the order in which the runs of partition
\* keys appear in the stream, the Stager keeps that order, and the load
\* statements are executed in list order, one for each Batch File.
C14_LoadOrder ==
    /\ \A k \in 1..Len(datafiles) :
          /\ datafiles[k].tempfile = OpenedFile(k)
          /\ datafiles[k].tablename = params.keysets[RunKey(k)].table
    /\ pc = "upload" =>
          \A i \in 1..Len(rval) : rval[i].tempfile = OpenedFile(i)
    /\ Cardinality(Attempts("execute")) <= Len(datafiles)
    /\ \A k \in 1..Cardinality(Attempts("execute")) :
          Statement(k) = Command(datafiles[k], extras)
    /\ \A i, j \in 1..Len(datafiles) :
          i # j => Command(datafiles[i], extras) # Command(datafiles[j], extras)
    /\ Calls("commit", TRUE) # {} =>
          Cardinality(Calls("execute", TRUE)) = Len(datafiles)

C14_Witness ==
    /\ pc = "done"
    /\ pipeline = "redshift"
    /\ Cardinality(Calls("execute", TRUE)) = 3
    /\ datafiles[1].tablename # datafiles[2].tablename


\* C15: a failed deletion is only logged: the deletion of every remaining
\* Batch File is still attempted, in list order, and the loader ends as the
\* commit or the rollback made it end: returning after a commit, raising the
\* load (or commit) error otherwise.
C15_DeletionFailuresLogged ==
    /\ exc[1] \in {"NoExc", "StreamError", "StagingError", "CredentialError",
                   "ConnectError", "LoadError", "CommitError"}
    /\ (pc = "cleanup" /\ CleanDbFiles(params)) =>
          Cardinality(Attempts("unlink")) = idx - 1
    /\ (pc = "done" /\ Calls("connection.close", TRUE) # {}) =>
          /\ CleanDbFiles(params) =>
                /\ Cardinality(Attempts("unlink")) = Len(datafiles)
                /\ \A k \in 1..Len(datafiles) :
                      log[Nth(Attempts("unlink"), k)].arg = datafiles[k].tempfile
          /\ IF Calls("commit", TRUE) # {}
             THEN outcome = Returned(Len(stream))
             ELSE /\ outcome.kind = "raised"
                  /\ outcome.error[1] =
                        IF LoadFailed THEN "LoadError" ELSE "CommitError"
          /\ \A f \in DOMAIN disk :
                \/ ~CleanDbFiles(params)
                \/ \E u \in Calls("unlink", FALSE) : log[u].arg = f

C15_Witness ==
    /\ pc = "done"
    /\ outcome.kind = "returned"
    /\ \E u \in Calls("unlink", FALSE) : \E v \in Calls("unlink", TRUE) : u < v


\* a step of _upload_s3 as C16 wants it
UploadFrame ==
    pc = "upload" =>
        /\ disk' = disk
        /\ openFiles' = openFiles
        /\ pc' \in {"upload", "credentials", "done"}
        /\ pc' = "upload" =>
              /\ datafiles' = datafiles
              /\ idx' = idx + 1 \/ (idx' = idx /\ s3store' = s3store /\ log' = log)
              /\ idx' = idx + 1 =>
                    /\ Len(log') = Len(log) + 1
                    /\ log'[Len(log')] =
                          Event("put", JobId \o "-" \o datafiles[idx].tempfile, TRUE)
                    /\ DOMAIN s3store' =
                          DOMAIN s3store
                          \cup {<<bucket_name, JobId \o "-" \o datafiles[idx].tempfile>>}
                    /\ Cardinality(DOMAIN s3store') = Cardinality(DOMAIN s3store) + 1
                    /\ s3store'[<<bucket_name, JobId \o "-" \o datafiles[idx].tempfile>>]
                          = disk[datafiles[idx].tempfile]
        /\ pc' = "credentials" =>
              /\ Len(datafiles') = Len(datafiles)
              /\ \A i \in 1..Len(datafiles) :
                    /\ datafiles'[i].tempfile = datafiles[i].tempfile
                    /\ datafiles'[i].tablename = datafiles[i].tablename
                    /\ datafiles'[i].columns = datafiles[i].columns
                    /\ datafiles[i].s3 = <<None, None>>
                    /\ datafiles'[i].s3 =
                          <<bucket_name, JobId \o "-" \o datafiles[i].tempfile>>
              /\ Cardinality(Calls("put", TRUE)) = Len(datafiles)
              /\ Cardinality(DOMAIN s3store) = Len(datafiles)
              /\ Calls("put", FALSE) = {}
              /\ s3store' = s3store
        /\ pc' = "done" =>
              /\ datafiles' = datafiles
              /\ s3store' = s3store
              /\ outcome' = Raised(<<"StagingError", datafiles[idx].tempfile>>)

\* C16: _upload_s3 uploads one object per Batch File, one after the other,
\* under (bucket, '<job-id>-<local-path>'); when all are stored it returns the
\* list in the same order with the same local paths, tables and columns and
\* the remote reference set; it leaves the local files as they are; when an
\* upload fails it raises and no list is returned.
C16_StagerFrame == [][UploadFrame]_vars

C16_Witness ==
    /\ pc = "credentials"
    /\ Len(datafiles) >= 2
    /\ \A i \in 1..Len(datafiles) :
          /\ datafiles[i].s3 = <<bucket_name, JobId \o "-" \o OpenedFile(i)>>
          /\ datafiles[i].s3 \in DOMAIN s3store
          /\ datafiles[i].tempfile \in DOMAIN disk


\* C17: of two jobs running at the same time, no local temporary file is
\* held by both, every line of a file a job holds was written by that job,
\* and a job loads only lines it wrote.
C17_ExclusiveFiles ==
    pc = "jobs" =>
        /\ \A j1, j2 \in Jobs : j1 # j2 => jobs[j1].held \cap jobs[j2].held = {}
        /\ \A j \in Jobs :
              /\ \A f \in jobs[j].held \cap DOMAIN disk :
                    \A n \in 1..Len(disk[f]) : disk[f][n][1] = j
              /\ \A line \in jobs[j].loaded : line[1] = j


\* the Batch Files _build_datafiles has returned, without their names: table,
\* column list and lines of each
Produced ==
    [i \in 1..Len(datafiles) |->
        [table   |-> datafiles[i].tablename,
         columns |-> datafiles[i].columns,
         lines   |-> disk[datafiles[i].tempfile]]]

\* the same, told from the input stream and the keyset registry alone: one
\* file for each run of equal partition keys, its records in stream order
LinesOfRun(k) ==
    LET n == Cardinality(RecordsOfRun(k, Len(stream)))
        cols == _get_columns(params.keysets[RunKey(k)])
    IN [m \in 1..n |->
           DictZip(cols, Fields(stream[Nth(RecordsOfRun(k, Len(stream)), m)]))]

FromInput ==
    [k \in 1..RunOf(Len(stream)) |->
        [table   |-> params.keysets[RunKey(k)].table,
         columns |-> Join(_get_columns(params.keysets[RunKey(k)])),
         lines   |-> LinesOfRun(k)]]

\* the files of the returned list are all still there
FilesKept == \A i \in 1..Len(datafiles) : datafiles[i].tempfile \in DOMAIN disk

\* C18: what _build_datafiles returns is fixed by the input stream and the
\* keyset registry, whatever names the files got: the number of Batch Files,
\* the table and the column list of each, the sequence of lines in each, and
\* the total count; so two runs on the same input agree in all of these.
C18_Deterministic ==
    (Built /\ FilesKept) =>
        /\ Produced = FromInput
        /\ total_lines = Len(stream)

C18_Witness ==
    /\ Built
    /\ FilesKept
    /\ Len(datafiles) = 2
    /\ \E i \in 1..2 :
          /\ Len(Produced[i].lines) = 2
          /\ Produced[i].lines[1] # Produced[i].lines[2]


\* the line has, under the column of part p, the component comp of the record
Carries(line, ks, p, comp) ==
    ~Omitted(ks, p) =>
        /\ MappedName(ks, p) \in DOMAIN line
        /\ line[MappedName(ks, p)] = comp

\* C19: in every line written, the field named by the column of a key part
\* or value part has the component of the record at the position of that
\* part, also when other parts are renamed or omitted by column_mappings.
C19_ValueAlignment ==
    (pc = "build" /\ pos > 0) =>
        LET rec == stream[pos]
            line == disk[tmp][Len(disk[tmp])]
        IN /\ \A i \in 2..Len(keyset.key_parts) :
                 Carries(line, keyset, keyset.key_parts[i], rec.key[i])
           /\ \A j \in 1..Len(keyset.value_parts) :
                 Carries(line, keyset, keyset.value_parts[j], rec.value[j])


\* the commits and rollbacks issued on the connection
TerminalActions == Attempts("commit") \cup Attempts("rollback")

\* C20: on a connection that was obtained, at most one commit or rollback is
\* issued at any time and exactly one by the time the connection is closed;
\* it comes after every load statement and before the close, no load
\* statement follows it, and for an empty Batch File list it is a commit.
C20_OneTerminalAction ==
    /\ Cardinality(TerminalActions) <= 1
    /\ \A t \in TerminalActions :
          /\ \E c \in Calls("connect", TRUE) : c < t
          /\ \A e \in Attempts("execute") : e < t
    /\ \A c \in Calls("connection.close", TRUE) :
          /\ Cardinality(TerminalActions) = 1
          /\ \A t \in TerminalActions : t < c
          /\ datafiles = <<>> => Attempts("commit") # {}
    /\ (Calls("connect", TRUE) # {} /\ pc \in {"cleanup", "done"}) =>
          Calls("connection.close", TRUE) # {}

C20_Witness ==
    /\ datafiles = <<>>
    /\ Calls("connection.close", TRUE) # {}
    /\ Calls("commit", TRUE) # {}
    /\ Calls("rollback", TRUE) = {}

=============================================================================
